---- MODULE Spec2Model ----
(***************************************************************************)
(* Model of the ethabi-static decoder: the primitive DecodeStatic impls of *)
(* src/src/types.rs and the decoder emitted by #[derive(DecodeStatic)]     *)
(* (src/derive/src/lib.rs).                                                *)
(*                                                                         *)
(* Memory is one byte sequence `mem` (the caller's input buffer).  A Rust  *)
(* slice &[u8] is the fat pointer [ptr, len] into that memory, so that a   *)
(* borrowed view is known by its absolute position and its length.        *)
(* Integers wider than 16 bits are kept as canonical base-256 numerals     *)
(* (most significant digit first, no leading zero digit).                  *)
(***************************************************************************)
EXTENDS Integers, Sequences, FiniteSets, TLC

VARIABLES mem, offset, pc, ty, result, cursor, heads, ub, entry, first, threads

vars == <<mem, offset, pc, ty, result, cursor, heads, ub, entry, first, threads>>

\* ------------------------------------------------------------------ bounds
MaxWords == 3

\* ------------------------------------------------------- program constants
WordSize == 32

AddressLen == 20

\* the length a slice gets when `get_unchecked(o..)` is taken past its end
\* (len - o wraps around in usize); any value larger than every buffer
HugeLen == 1000000

\* ------------------------------------------------------------ byte helpers
Min(a, b) == IF a < b THEN a ELSE b

Zeros(n) == [i \in 1..n |-> 0]

\* canonical numeral: drop the leading zero digits
RECURSIVE StripZeros(_)
StripZeros(ds) ==
    IF ds = <<>> THEN <<>>
    ELSE IF ds[1] = 0 THEN StripZeros(Tail(ds)) ELSE ds

\* ------------------------------------------------------------- outcomes
\* st: "Ok" (Ok(v)), "Err" (Err(())), "Panic" (index out of range, unwrap
\* of Err), "Abort" (the process died on an out-of-allocation read).
\* rd: the absolute byte ranges <<lo, hi>> (hi exclusive) read so far.
Ok(v, rd) == [st |-> "Ok", val |-> v, rd |-> rd]

Err(rd) == [st |-> "Err", val |-> <<>>, rd |-> rd]

Panic(rd) == [st |-> "Panic", val |-> <<>>, rd |-> rd]

Abort(rd) == [st |-> "Abort", val |-> <<>>, rd |-> rd]

\* ---------------------------------------------------------------- slices
Slice(p, n) == [ptr |-> p, len |-> n]

\* &buf[..] of the whole input
Whole(m) == Slice(0, Len(m))

\* buf.get_unchecked(o..): no check; past the end the length wraps
get_unchecked_from(buf, o) ==
    IF o <= buf.len THEN Slice(buf.ptr + o, buf.len - o)
    ELSE Slice(buf.ptr + o, HugeLen)

\* buf.get_unchecked(a..b): no check
get_unchecked_range(buf, a, b) == Slice(buf.ptr + a, b - a)

\* the byte a read of absolute address a yields: the stored byte inside the
\* allocation, an arbitrary byte (g.byte) outside of it
Load(m, a, g) == IF a < Len(m) THEN m[a + 1] ELSE g.byte

\* the n bytes found at ptr .. ptr+n
LoadN(m, p, n, g) == [i \in 1..n |-> Load(m, p + i - 1, g)]

\* slice_as_array::<T, N>: reinterpret the start of the slice as [u8; N]
slice_as_array(buf, n) == Slice(buf.ptr, n)

\* u{N}::from_be_bytes / U256::from(&[u8; 32]): the number whose base-256
\* digits, most significant first, are the bytes
from_be_bytes(bytes) == StripZeros(bytes)

\* -------------------------------------------------- src/src/types.rs
\* as_usize reading a third byte (the wider read the source comments out)
as_usize_wide(m, buf, g) ==
    (Load(m, buf.ptr + 29, g) * 65536) + (Load(m, buf.ptr + 30, g) * 256)
        + Load(m, buf.ptr + 31, g)

\* as_usize: ((buf[30] as usize) << 8) + (buf[31] as usize), unchecked
as_usize(m, buf, g) ==
    (Load(m, buf.ptr + 30, g) * 256) + Load(m, buf.ptr + 31, g)

\* the byte range as_usize reads of the slice
as_usize_rd(buf) == {<<buf.ptr + 30, buf.ptr + 32>>}

\* AddressZcp::new(buf): Self(slice_as_array(buf))
AddressZcp_new(buf) == slice_as_array(buf, AddressLen)

\* impl DecodeStatic for AddressZcp: Ok(AddressZcp::new(buf))
AddressZcp_decode_static(m, buf, off, g) == Ok(AddressZcp_new(buf), {})

\* bool decoding that takes every non-zero byte for true
bool_decode_static_nonzero(m, buf, off, g) ==
    IF off + 31 >= buf.len THEN Panic({})
    ELSE Ok(Load(m, buf.ptr + off + 31, g) # 0,
            {<<buf.ptr + off + 31, buf.ptr + off + 32>>})

\* impl DecodeStatic for bool: Ok(buf[offset + 31] == 1)
bool_decode_static(m, buf, off, g) ==
    IF off + 31 >= buf.len THEN Panic({})
    ELSE Ok(Load(m, buf.ptr + off + 31, g) = 1,
            {<<buf.ptr + off + 31, buf.ptr + off + 32>>})

\* a fixed-width read that forgets the offset of the word
uint_read_no_offset(m, buf, off, skip, n, g) ==
    LET arr == slice_as_array(get_unchecked_from(buf, skip), n)
    IN  Ok(from_be_bytes(LoadN(m, arr.ptr, n, g)),
           {<<arr.ptr, arr.ptr + n>>})

\* the unchecked fixed-width reads: from_be_bytes(*slice_as_array(
\* buf.get_unchecked(offset + skip..))) with an array of n bytes
uint_read(m, buf, off, skip, n, g) ==
    LET arr == slice_as_array(get_unchecked_from(buf, off + skip), n)
    IN  Ok(from_be_bytes(LoadN(m, arr.ptr, n, g)),
           {<<arr.ptr, arr.ptr + n>>})

\* impl DecodeStatic for U256
U256_decode_static(m, buf, off, g) == uint_read(m, buf, off, 0, 32, g)

\* a u128 read as an array of 32 bytes from the middle of its word
u128_decode_static_wide(m, buf, off, g) == uint_read(m, buf, off, 16, 32, g)

\* impl DecodeStatic for u128
u128_decode_static(m, buf, off, g) == uint_read(m, buf, off, 16, 16, g)

\* impl DecodeStatic for u64
u64_decode_static(m, buf, off, g) == uint_read(m, buf, off, 24, 8, g)

\* impl DecodeStatic for u32
u32_decode_static(m, buf, off, g) == uint_read(m, buf, off, 28, 4, g)

\* impl DecodeStatic for u16
u16_decode_static(m, buf, off, g) == uint_read(m, buf, off, 30, 2, g)

\* a u8 decoder that returns the failure value when the word is cut short
u8_decode_static_checked(m, buf, off, g) ==
    IF off + 31 >= buf.len THEN Err({})
    ELSE Ok(from_be_bytes(<<Load(m, buf.ptr + off + 31, g)>>),
            {<<buf.ptr + off + 31, buf.ptr + off + 32>>})

\* impl DecodeStatic for u8: Ok(buf[offset + 31])
u8_decode_static(m, buf, off, g) ==
    IF off + 31 >= buf.len THEN Panic({})
    ELSE Ok(from_be_bytes(<<Load(m, buf.ptr + off + 31, g)>>),
            {<<buf.ptr + off + 31, buf.ptr + off + 32>>})

\* a bytes view that takes the ABI padding along (length rounded up to words)
BytesZcp_decode_static_padded(m, buf, len_offset, g) ==
    LET data_offset == len_offset + 32
        lenw == get_unchecked_from(buf, len_offset)
        len == ((as_usize(m, lenw, g) + 31) \div 32) * 32
    IN  Ok(get_unchecked_range(buf, data_offset, data_offset + len),
           as_usize_rd(lenw))

\* impl DecodeStatic for BytesZcp
BytesZcp_decode_static(m, buf, len_offset, g) ==
    LET data_offset == len_offset + 32
        lenw == get_unchecked_from(buf, len_offset)
        len == as_usize(m, lenw, g)
    IN  Ok(get_unchecked_range(buf, data_offset, data_offset + len),
           as_usize_rd(lenw))

\* FixedBytesZcp::new(val): Self(slice_as_array(val))
FixedBytesZcp_new(val, n) == slice_as_array(val, n)

\* impl DecodeStatic for FixedBytesZcp<N>: Ok(Self::new(buf))
FixedBytesZcp_decode_static(m, buf, off, n, g) == Ok(FixedBytesZcp_new(buf, n), {})

\* ------------------------------------------------------------- type names
\* A type is the token sequence of its spelling (lifetimes left out), as
\* the derive macro sees it: <<"Vec", "<", "BytesZcp", ">">>.
TyBool == <<"bool">>

TyU8 == <<"u8">>

TyU16 == <<"u16">>

TyU32 == <<"u32">>

TyU64 == <<"u64">>

TyU128 == <<"u128">>

TyU256 == <<"U256">>

TyAddress == <<"AddressZcp">>

TyBytes == <<"BytesZcp">>

TyFixedBytes(n) == <<"FixedBytesZcp", "<", n, ">">>

TyVec(t) == <<"Vec", "<">> \o t \o <<">">>

TyArray(t, d) == <<"Array", "<">> \o t \o <<",", d, ">">>

TyTuples(t) == <<"Tuples", "<">> \o t \o <<">">>

TyTuple(t) == <<"Tuple", "<">> \o t \o <<">">>

TyWrapped(t) == <<"Wrapped", "<">> \o t \o <<">">>

TyFixedArray(t, n) == <<"[">> \o t \o <<";", n, "]">>

\* the value of a const generic / array length literal
ConstOf(tok) ==
    CASE tok = "1" -> 1 [] tok = "2" -> 2 [] tok = "3" -> 3
      [] tok = "4" -> 4 [] tok = "8" -> 8 [] tok = "16" -> 16
      [] tok = "32" -> 32

\* the first generic argument of Name<T> / Name<T, c>
GenericArg(t) ==
    IF t[1] = "Array" THEN SubSeq(t, 3, Len(t) - 3) ELSE SubSeq(t, 3, Len(t) - 1)

\* ------------------------------------------------------ record schemas
\* the structs the tests derive DecodeStatic for: declared fields in order;
\* Fixed2 is a struct with a [T; N] field ahead of another field, which the
\* derive accepts through impl DecodeStatic for [T; N]
Field(n, t, sk) == [name |-> n, ty |-> t, skip |-> sk]

Schema(name) ==
    CASE name = "Numero" ->
           <<Field("a", TyU8, FALSE), Field("b", TyU16, FALSE),
             Field("c", TyU32, FALSE), Field("d", TyU64, FALSE),
             Field("e", TyU128, FALSE)>>
      [] name = "Foo" ->
           <<Field("bar", TyVec(TyU256), FALSE), Field("bools", TyVec(TyBool), FALSE),
             Field("val", TyU256, FALSE)>>
      [] name = "Foo2" ->
           <<Field("val", TyU256, FALSE), Field("bools", TyVec(TyBool), FALSE)>>
      [] name = "Thingy" ->
           <<Field("a", TyAddress, FALSE), Field("b", TyAddress, FALSE),
             Field("c", TyU256, FALSE), Field("d", TyBytes, FALSE),
             Field("e", TyVec(TyBytes), FALSE), Field("f", TyFixedBytes("8"), FALSE)>>
      [] name = "Result3" ->
           <<Field("success", TyBool, FALSE), Field("return_data", TyBytes, FALSE)>>
      [] name = "UniswapV2Reserves" ->
           <<Field("r0", TyU128, FALSE), Field("r1", TyU128, FALSE)>>
      [] name = "GenericResult3" ->
           <<Field("ok", TyBool, TRUE),
             Field("data", TyWrapped(<<"UniswapV2Reserves">>), FALSE)>>
      [] name = "Fixed2" ->
           <<Field("xs", TyFixedArray(TyU8, "2"), FALSE), Field("y", TyU16, FALSE)>>

Structs == {"Numero", "Foo", "Foo2", "Thingy", "Result3", "UniswapV2Reserves",
            "GenericResult3", "Fixed2"}

\* Default::default() of a field type
Default(t) ==
    CASE t[1] = "bool" -> FALSE
      [] t[1] \in {"BytesZcp", "AddressZcp", "FixedBytesZcp"} -> Slice(0, 0)
      [] OTHER -> <<>>

\* ----------------------------------------------- derive: classification
\* let is_list = type_string.starts_with("Vec")
is_list(t) == t[1] = "Vec"

\* let field_is_dynamic = is_list || type_string.starts_with("BytesZcp")
field_is_dynamic(t) == is_list(t) \/ t[1] = "BytesZcp"

\* dynamic_inner: the third token of Vec<T> is the identifier BytesZcp
dynamic_inner(t) == t[3] = "BytesZcp"

\* head slots that start one word late
head_offset_late(idx) == 32 * (idx + 1)

\* the head slot of the idx-th declared field (idx counts from 0)
head_offset(idx) == 32 * idx

\* the inline head read of a dynamic field:
\* (buf.get_unchecked(#offset + 30) << 8) + buf.get_unchecked(#offset + 31)
head_read(m, buf, hoff, g) ==
    (Load(m, buf.ptr + hoff + 30, g) * 256) + Load(m, buf.ptr + hoff + 31, g)

\* ------------------------------------------------- composite decoders
\* A failed .unwrap() / `?` on a nested outcome
Unwrap(o) == IF o.st = "Err" THEN Panic(o.rd) ELSE o

RECURSIVE decode_static(_, _, _, _, _)
RECURSIVE decode(_, _, _, _)
RECURSIVE ArrayDynItems(_, _, _, _, _, _, _, _, _)
RECURSIVE ArrayStaticItems(_, _, _, _, _, _, _, _, _)
RECURSIVE TuplesItems(_, _, _, _, _, _, _, _, _)
RECURSIVE FixedArrayItems(_, _, _, _, _, _, _, _)
RECURSIVE head_stmt(_, _, _, _, _)
RECURSIVE head_stmts(_, _, _, _, _, _, _)
RECURSIVE tail_stmt(_, _, _, _, _, _)
RECURSIVE tail_stmts(_, _, _, _, _, _, _, _)

\* a decode that starts at the second word
decode_at_word(m, t, buf, g) == decode_static(m, t, buf, 32, g)

\* DecodeStatic::decode: Self::decode_static(buf, 0_usize)
decode(m, t, buf, g) == decode_static(m, t, buf, 0, g)

\* the reads of the offset words of elements i..len-1
OffsetWordReads(buf, tail_offset, i, len) ==
    {<<buf.ptr + tail_offset + (k * 32) + 30, buf.ptr + tail_offset + (k * 32) + 32>> :
        k \in i..(len - 1)}

\* Array<T, true>: the (0..len).map(..).for_each(..) loop from element i on.
\* Once the offset words lie outside the allocation every further iteration
\* reads the same bytes, so the remaining elements are len - i copies of
\* one decode.
ArrayDynItems(m, t, buf, tail_offset, len, i, items, rd, g) ==
    IF i >= len THEN Ok(items, rd)
    ELSE LET next_tail_offset == tail_offset + (i * 32)
             w == get_unchecked_from(buf, next_tail_offset)
             o == as_usize(m, w, g) + tail_offset
             rd1 == rd \cup as_usize_rd(w)
         IN  IF o > buf.len THEN Panic(rd1)
             ELSE LET r == Unwrap(decode(m, t, Slice(buf.ptr + o, buf.len - o), g))
                  IN  IF r.st # "Ok" THEN [r EXCEPT !.rd = rd1 \cup r.rd]
                      ELSE IF w.ptr + 30 >= Len(m)
                        THEN Ok(items \o [k \in 1..(len - i) |-> r.val],
                                rd \cup OffsetWordReads(buf, tail_offset, i, len) \cup r.rd)
                      ELSE ArrayDynItems(m, t, buf, tail_offset, len, i + 1,
                                         Append(items, r.val), rd1 \cup r.rd, g)

\* a dynamic-element array whose offsets count from the length word itself
ArrayDyn_decode_static_from_base(m, t, buf, len_offset, g) ==
    IF len_offset > buf.len THEN Panic({})
    ELSE LET w == Slice(buf.ptr + len_offset, buf.len - len_offset)
             len == as_usize(m, w, g)
             tail_offset == len_offset
         IN  ArrayDynItems(m, t, buf, tail_offset, len, 0, <<>>, as_usize_rd(w), g)

\* impl DecodeStatic for Array<T, true> (default build)
ArrayDyn_decode_static(m, t, buf, len_offset, g) ==
    IF len_offset > buf.len THEN Panic({})
    ELSE LET w == Slice(buf.ptr + len_offset, buf.len - len_offset)
             len == as_usize(m, w, g)
             tail_offset == len_offset + 32
         IN  ArrayDynItems(m, t, buf, tail_offset, len, 0, <<>>, as_usize_rd(w), g)

\* Array<T, false>: the (0..len).for_each(..) loop from element i on
ArrayStaticItems(m, t, buf, len_offset, len, i, items, rd, g) ==
    IF i >= len THEN Ok(items, rd)
    ELSE LET idx == len_offset + 32 + (i * 32)
         IN  IF idx > buf.len THEN Panic(rd)
             ELSE LET r == Unwrap(decode(m, t, Slice(buf.ptr + idx, buf.len - idx), g))
                  IN  IF r.st # "Ok" THEN [r EXCEPT !.rd = rd \cup r.rd]
                      ELSE ArrayStaticItems(m, t, buf, len_offset, len, i + 1,
                                            Append(items, r.val), rd \cup r.rd, g)

\* impl DecodeStatic for Array<T, false> (default build)
ArrayStatic_decode_static(m, t, buf, len_offset, g) ==
    IF len_offset > buf.len THEN Panic({})
    ELSE LET w == Slice(buf.ptr + len_offset, buf.len - len_offset)
             len == as_usize(m, w, g)
         IN  ArrayStaticItems(m, t, buf, len_offset, len, 0, <<>>, as_usize_rd(w), g)

\* Tuples<T>: the (0..len).map(..).for_each(..) loop from element i on
\* (remaining elements in one step once the offset words are outside the
\* allocation, as in ArrayDynItems)
TuplesItems(m, t, buf, tail_offset, len, i, items, rd, g) ==
    IF i >= len THEN Ok(items, rd)
    ELSE LET next_tail_offset == tail_offset + (i * 32)
             w == get_unchecked_from(buf, next_tail_offset)
             o == as_usize(m, w, g) + tail_offset
             rd1 == rd \cup as_usize_rd(w)
             r == Unwrap(decode(m, t, get_unchecked_from(buf, o), g))
         IN  IF r.st # "Ok" THEN [r EXCEPT !.rd = rd1 \cup r.rd]
             ELSE IF w.ptr + 30 >= Len(m)
               THEN Ok(items \o [k \in 1..(len - i) |-> r.val],
                       rd \cup OffsetWordReads(buf, tail_offset, i, len) \cup r.rd)
             ELSE TuplesItems(m, t, buf, tail_offset, len, i + 1,
                              Append(items, r.val), rd1 \cup r.rd, g)

\* a tuple list whose offsets count from the length word itself
Tuples_decode_static_from_len(m, t, buf, off, g) ==
    IF off > buf.len THEN Panic({})
    ELSE LET w0 == Slice(buf.ptr + off, buf.len - off)
             len_offset == as_usize(m, w0, g)
         IN  IF len_offset > buf.len THEN Panic(as_usize_rd(w0))
             ELSE LET w1 == Slice(buf.ptr + len_offset, buf.len - len_offset)
                      len == as_usize(m, w1, g)
                      tail_offset == len_offset
                  IN  TuplesItems(m, t, buf, tail_offset, len, 0, <<>>,
                                  as_usize_rd(w0) \cup as_usize_rd(w1), g)

\* impl DecodeStatic for Tuples<T>
Tuples_decode_static(m, t, buf, off, g) ==
    IF off > buf.len THEN Panic({})
    ELSE LET w0 == Slice(buf.ptr + off, buf.len - off)
             len_offset == as_usize(m, w0, g)
         IN  IF len_offset > buf.len THEN Panic(as_usize_rd(w0))
             ELSE LET w1 == Slice(buf.ptr + len_offset, buf.len - len_offset)
                      len == as_usize(m, w1, g)
                      tail_offset == len_offset + 32
                  IN  TuplesItems(m, t, buf, tail_offset, len, 0, <<>>,
                                  as_usize_rd(w0) \cup as_usize_rd(w1), g)

\* a dynamic tuple whose interior offsets count from the start of buf
Tuple_decode_static_from_buf(m, t, buf, off, g) ==
    LET w == get_unchecked_from(buf, off)
        tail_offset == as_usize(m, w, g)
    IN  IF tail_offset > buf.len THEN Panic(as_usize_rd(w))
        ELSE LET r == Unwrap(decode(m, t, buf, g))
             IN  [r EXCEPT !.rd = as_usize_rd(w) \cup r.rd]

\* impl DecodeStatic for Tuple<T> (dynamic tuple)
Tuple_decode_static(m, t, buf, off, g) ==
    LET w == get_unchecked_from(buf, off)
        tail_offset == as_usize(m, w, g)
    IN  IF tail_offset > buf.len THEN Panic(as_usize_rd(w))
        ELSE LET r == Unwrap(decode(m, t, Slice(buf.ptr + tail_offset,
                                                 buf.len - tail_offset), g))
             IN  [r EXCEPT !.rd = as_usize_rd(w) \cup r.rd]

\* a Wrapped<T> that advances one word only past the head position
Wrapped_decode_static_one_word(m, t, buf, len_offset, g) ==
    IF len_offset > buf.len THEN Panic({})
    ELSE LET data_offset == len_offset + 32
             w == Slice(buf.ptr + len_offset, buf.len - len_offset)
             len == as_usize(m, w, g)
         IN  IF data_offset + len > buf.len THEN Panic(as_usize_rd(w))
             ELSE LET r == decode(m, t, Slice(buf.ptr + data_offset, len), g)
                  IN  [r EXCEPT !.rd = as_usize_rd(w) \cup r.rd]

\* impl DecodeStatic for Wrapped<T>
Wrapped_decode_static(m, t, buf, len_offset, g) ==
    IF len_offset > buf.len THEN Panic({})
    ELSE LET data_offset == len_offset + 64
             w == Slice(buf.ptr + len_offset, buf.len - len_offset)
             len == as_usize(m, w, g)
         IN  IF data_offset + len > buf.len THEN Panic(as_usize_rd(w))
             ELSE LET r == decode(m, t, Slice(buf.ptr + data_offset, len), g)
                  IN  [r EXCEPT !.rd = as_usize_rd(w) \cup r.rd]

\* [T; N]: the `for idx in 0..N` loop from element idx on
FixedArrayItems(m, t, tail, n, idx, tokens, rd, g) ==
    IF idx >= n THEN Ok(tokens, rd)
    ELSE LET r == decode_static(m, t, tail, 32 * idx, g)
         IN  IF r.st # "Ok" THEN [r EXCEPT !.rd = rd \cup r.rd]
             ELSE FixedArrayItems(m, t, tail, n, idx + 1,
                                  Append(tokens, r.val), rd \cup r.rd, g)

\* impl DecodeStatic for [T; N]
FixedArray_decode_static(m, t, n, buf, off, g) ==
    IF off > buf.len THEN Panic({})
    ELSE FixedArrayItems(m, t, Slice(buf.ptr + off, buf.len - off), n, 0, <<>>, {}, g)

\* head statements that decode a dynamic field's tail at once, in the head pass
head_stmt_eager(m, fs, i, buf, g) ==
    LET f == fs[i]
        hoff == head_offset(i - 1)
    IN  IF f.skip THEN Ok(<<>>, {})
        ELSE IF ~field_is_dynamic(f.ty) THEN decode_static(m, f.ty, buf, hoff, g)
        ELSE LET r == decode_static(m, TyBytes, buf, head_read(m, buf, hoff, g), g)
             IN  Ok(head_read(m, buf, hoff, g),
                    {<<buf.ptr + hoff + 30, buf.ptr + hoff + 32>>} \cup r.rd)

\* derive, head pass: the head statement of the i-th declared field; binds
\* a static field's value or a dynamic field's raw head offset (a skipped
\* field has no head statement: its binding is made in the tail statement)
head_stmt(m, fs, i, buf, g) ==
    LET f == fs[i]
        hoff == head_offset(i - 1)
    IN  IF f.skip THEN Ok(<<>>, {})
        ELSE IF ~field_is_dynamic(f.ty) THEN decode_static(m, f.ty, buf, hoff, g)
        ELSE Ok(head_read(m, buf, hoff, g),
                {<<buf.ptr + hoff + 30, buf.ptr + hoff + 32>>})

\* #(#head_stmts)* from field i on
head_stmts(m, fs, i, buf, env, rd, g) ==
    IF i > Len(fs) THEN Ok(env, rd)
    ELSE LET r == head_stmt(m, fs, i, buf, g)
         IN  IF r.st # "Ok" THEN [r EXCEPT !.rd = rd \cup r.rd]
             ELSE head_stmts(m, fs, i + 1, buf, Append(env, r.val), rd \cup r.rd, g)

\* field initialisers that decode a skipped field from its head slot
tail_stmt_no_skip(m, fs, j, buf, env, g) ==
    LET f == fs[j]
    IN  IF f.skip THEN decode_static(m, f.ty, buf, head_offset(j - 1), g)
        ELSE IF ~field_is_dynamic(f.ty) THEN Ok(env[j], {})
        ELSE IF is_list(f.ty)
          THEN decode_static(m, TyArray(GenericArg(f.ty),
                                        IF dynamic_inner(f.ty) THEN "true" ELSE "false"),
                             buf, env[j], g)
        ELSE decode_static(m, f.ty, buf, env[j], g)

\* derive, tail pass: the field initialiser of the j-th declared field in
\* Ok(Self { .. }), given the head bindings env
tail_stmt(m, fs, j, buf, env, g) ==
    LET f == fs[j]
    IN  IF f.skip THEN Ok(Default(f.ty), {})
        ELSE IF ~field_is_dynamic(f.ty) THEN Ok(env[j], {})
        ELSE IF is_list(f.ty)
          THEN decode_static(m, TyArray(GenericArg(f.ty),
                                        IF dynamic_inner(f.ty) THEN "true" ELSE "false"),
                             buf, env[j], g)
        ELSE decode_static(m, f.ty, buf, env[j], g)

\* Ok(Self { #(#tail_stmts)* }) from field j on
tail_stmts(m, fs, j, buf, env, vals, rd, g) ==
    IF j > Len(fs) THEN Ok(vals, rd)
    ELSE LET r == tail_stmt(m, fs, j, buf, env, g)
         IN  IF r.st # "Ok" THEN [r EXCEPT !.rd = rd \cup r.rd]
             ELSE tail_stmts(m, fs, j + 1, buf, env, Append(vals, r.val),
                             rd \cup r.rd, g)

\* the decode_static emitted by #[derive(DecodeStatic)] for struct `name`;
\* the emitted body does not use its offset parameter
derive_decode_static(m, name, buf, off, g) ==
    LET fs == Schema(name)
        h == head_stmts(m, fs, 1, buf, <<>>, {}, g)
    IN  IF h.st # "Ok" THEN h
        ELSE tail_stmts(m, fs, 1, buf, h.val, <<>>, h.rd, g)

\* <T as DecodeStatic>::decode_static, by the spelling of T
decode_static(m, t, buf, off, g) ==
    CASE t[1] = "AddressZcp" -> AddressZcp_decode_static(m, buf, off, g)
      [] t[1] = "bool" -> bool_decode_static(m, buf, off, g)
      [] t[1] = "U256" -> U256_decode_static(m, buf, off, g)
      [] t[1] = "u128" -> u128_decode_static(m, buf, off, g)
      [] t[1] = "u64" -> u64_decode_static(m, buf, off, g)
      [] t[1] = "u32" -> u32_decode_static(m, buf, off, g)
      [] t[1] = "u16" -> u16_decode_static(m, buf, off, g)
      [] t[1] = "u8" -> u8_decode_static(m, buf, off, g)
      [] t[1] = "BytesZcp" -> BytesZcp_decode_static(m, buf, off, g)
      [] t[1] = "FixedBytesZcp" ->
           FixedBytesZcp_decode_static(m, buf, off, ConstOf(t[3]), g)
      [] t[1] = "Array" /\ t[Len(t) - 1] = "true" ->
           ArrayDyn_decode_static(m, GenericArg(t), buf, off, g)
      [] t[1] = "Array" /\ t[Len(t) - 1] = "false" ->
           ArrayStatic_decode_static(m, GenericArg(t), buf, off, g)
      [] t[1] = "Tuples" -> Tuples_decode_static(m, GenericArg(t), buf, off, g)
      [] t[1] = "Tuple" -> Tuple_decode_static(m, GenericArg(t), buf, off, g)
      [] t[1] = "Wrapped" -> Wrapped_decode_static(m, GenericArg(t), buf, off, g)
      [] t[1] = "[" ->
           FixedArray_decode_static(m, SubSeq(t, 2, Len(t) - 3),
                                    ConstOf(t[Len(t) - 1]), buf, off, g)
      [] t[1] \in Structs -> derive_decode_static(m, t[1], buf, off, g)

\* ------------------------------------------------------------ input space
\* a word holding n (n < 65536) right-aligned, upper bytes zero
Num(n) == Zeros(30) \o <<n \div 256, n % 256>>

\* bytes 30 and 31 of the word at p, as hi * 256 + lo
U16At(m, p) == (m[p + 31] * 256) + m[p + 32]

\* a word all of whose bytes differ: 0, then 31 down to 1
Pat == [i \in 1..32 |-> IF i = 1 THEN 0 ELSE 33 - i]

\* a word whose low two bytes hold n under non-zero upper bytes
Dirty(n) == [i \in 1..30 |-> 1] \o <<n \div 256, n % 256>>

WordPool == {Num(0), Num(1), Num(2), Pat, Dirty(1)}

RECURSIVE PoolBufs(_)
PoolBufs(k) ==
    IF k = 0 THEN {<<>>}
    ELSE LET S == PoolBufs(k - 1)
         IN  S \cup {b \o w : b \in {x \in S : Len(x) = 32 * (k - 1)}, w \in WordPool}

\* the Multicall result vector of the tests (src/types/src/lib.rs)
V2_RESULTS ==
    Num(32) \o
    Num(4) \o
    Num(128) \o
    Num(320) \o
    Num(512) \o
    Num(736) \o
    Num(1) \o
    Num(64) \o
    Num(96) \o
    <<0, 0, 0, 0, 0, 0, 0, 0, 0, 0, 0, 0, 0, 0, 0, 0, 0, 0, 0, 0, 0, 0, 0, 219, 86, 223, 166, 126, 253, 44, 225, 114>> \o
    <<0, 0, 0, 0, 0, 0, 0, 0, 0, 0, 0, 0, 0, 0, 0, 0, 0, 0, 0, 0, 0, 0, 0, 0, 0, 0, 6, 215, 72, 136, 190, 68>> \o
    <<0, 0, 0, 0, 0, 0, 0, 0, 0, 0, 0, 0, 0, 0, 0, 0, 0, 0, 0, 0, 0, 0, 0, 0, 0, 0, 0, 0, 100, 88, 235, 23>> \o
    Num(1) \o
    Num(64) \o
    Num(96) \o
    <<0, 0, 0, 0, 0, 0, 0, 0, 0, 0, 0, 0, 0, 0, 0, 0, 0, 0, 0, 0, 0, 0, 0, 32, 97, 86, 209, 214, 142, 148, 78, 121>> \o
    <<0, 0, 0, 0, 0, 0, 0, 0, 0, 0, 0, 0, 0, 0, 0, 0, 0, 0, 0, 0, 0, 0, 200, 212, 171, 39, 142, 158, 79, 78, 55, 216>> \o
    <<0, 0, 0, 0, 0, 0, 0, 0, 0, 0, 0, 0, 0, 0, 0, 0, 0, 0, 0, 0, 0, 0, 0, 0, 0, 0, 0, 0, 100, 88, 234, 86>> \o
    Num(1) \o
    Num(64) \o
    Num(128) \o
    <<0, 0, 0, 0, 0, 0, 0, 0, 0, 0, 0, 0, 0, 0, 0, 0, 0, 0, 0, 0, 0, 0, 0, 125, 250, 204, 71, 5, 30, 121, 220, 192>> \o
    <<0, 0, 0, 0, 0, 0, 0, 0, 0, 0, 0, 0, 0, 0, 0, 0, 0, 0, 0, 0, 0, 0, 0, 0, 0, 0, 3, 237, 86, 153, 222, 242>> \o
    Num(300) \o
    Num(300) \o
    Num(1) \o
    Num(64) \o
    Num(128) \o
    <<0, 0, 0, 0, 0, 0, 0, 0, 0, 0, 0, 0, 0, 0, 0, 0, 0, 0, 0, 0, 0, 0, 0, 105, 80, 85, 99, 225, 225, 129, 6, 114>> \o
    <<0, 0, 0, 0, 0, 0, 0, 0, 0, 0, 0, 0, 0, 0, 0, 0, 0, 0, 0, 0, 0, 2, 143, 23, 78, 238, 76, 51, 223, 120, 207, 83>> \o
    Num(300) \o
    Num(300)

\* input of test_ethabi_static_decode
ThingyInput ==
    <<0, 0, 0, 0, 0, 0, 0, 0, 0, 0, 0, 0, 18, 52, 86, 120, 145, 35, 69, 103, 137, 17, 17, 17, 17, 17, 17, 17, 17, 17, 17, 17>> \o
    <<0, 0, 0, 0, 0, 0, 0, 0, 0, 0, 0, 0, 18, 52, 86, 120, 145, 35, 69, 103, 137, 17, 17, 17, 17, 17, 17, 17, 17, 17, 18, 34>> \o
    Num(12345) \o
    Num(192) \o
    Num(256) \o
    <<17, 34, 51, 68, 85, 102, 119, 136, 0, 0, 0, 0, 0, 0, 0, 0, 0, 0, 0, 0, 0, 0, 0, 0, 0, 0, 0, 0, 0, 0, 0, 0>> \o
    Num(26) \o
    <<16, 0, 0, 0, 0, 0, 0, 0, 0, 0, 0, 0, 0, 0, 0, 0, 0, 0, 0, 0, 0, 0, 0, 0, 0, 255, 0, 0, 0, 0, 0, 0>> \o
    Num(7) \o
    Num(224) \o
    Num(288) \o
    Num(352) \o
    Num(416) \o
    Num(480) \o
    Num(544) \o
    Num(608) \o
    Num(2) \o
    <<19, 55, 0, 0, 0, 0, 0, 0, 0, 0, 0, 0, 0, 0, 0, 0, 0, 0, 0, 0, 0, 0, 0, 0, 0, 0, 0, 0, 0, 0, 0, 0>> \o
    Num(2) \o
    <<179, 63, 0, 0, 0, 0, 0, 0, 0, 0, 0, 0, 0, 0, 0, 0, 0, 0, 0, 0, 0, 0, 0, 0, 0, 0, 0, 0, 0, 0, 0, 0>> \o
    Num(3) \o
    <<164, 176, 80, 0, 0, 0, 0, 0, 0, 0, 0, 0, 0, 0, 0, 0, 0, 0, 0, 0, 0, 0, 0, 0, 0, 0, 0, 0, 0, 0, 0, 0>> \o
    Num(1) \o
    <<55, 0, 0, 0, 0, 0, 0, 0, 0, 0, 0, 0, 0, 0, 0, 0, 0, 0, 0, 0, 0, 0, 0, 0, 0, 0, 0, 0, 0, 0, 0, 0>> \o
    Num(1) \o
    <<11, 0, 0, 0, 0, 0, 0, 0, 0, 0, 0, 0, 0, 0, 0, 0, 0, 0, 0, 0, 0, 0, 0, 0, 0, 0, 0, 0, 0, 0, 0, 0>> \o
    Num(1) \o
    <<22, 0, 0, 0, 0, 0, 0, 0, 0, 0, 0, 0, 0, 0, 0, 0, 0, 0, 0, 0, 0, 0, 0, 0, 0, 0, 0, 0, 0, 0, 0, 0>> \o
    Num(1) \o
    <<255, 0, 0, 0, 0, 0, 0, 0, 0, 0, 0, 0, 0, 0, 0, 0, 0, 0, 0, 0, 0, 0, 0, 0, 0, 0, 0, 0, 0, 0, 0, 0>>

\* input of uint_decodes
UintInput ==
    Num(55) \o
    Num(555) \o
    Num(5555) \o
    Num(55555) \o
    <<0, 0, 0, 0, 0, 0, 0, 0, 0, 0, 0, 0, 0, 0, 0, 0, 0, 0, 0, 0, 0, 0, 0, 0, 0, 0, 0, 0, 0, 8, 122, 35>>

\* input of statics_list
StaticsListInput ==
    Num(96) \o
    Num(288) \o
    Num(555) \o
    Num(5) \o
    Num(1) \o
    Num(2) \o
    Num(3) \o
    Num(4) \o
    Num(5) \o
    Num(3) \o
    Num(1) \o
    Num(0) \o
    Num(1)

\* input of statics_list_2
StaticsList2Input ==
    Num(555) \o
    Num(64) \o
    Num(3) \o
    Num(1) \o
    Num(0) \o
    Num(1)

\* ------------------------------------------- reference ABI encoding
\* The encoding the inputs of the tests were produced with: every value is a
\* part, static (its words stand in the head) or dynamic (the head holds the
\* offset of its encoding in the tail).
PadLeft(bs) == Zeros(32 - Len(bs)) \o bs

PadRight(bs) == bs \o Zeros((32 - (Len(bs) % 32)) % 32)

RECURSIVE Concat(_)
Concat(ss) == IF Len(ss) = 0 THEN <<>> ELSE Head(ss) \o Concat(Tail(ss))

\* the bytes the tails of parts 1..k take
RECURSIVE TailBytes(_, _)
TailBytes(parts, k) ==
    IF k = 0 THEN 0
    ELSE TailBytes(parts, k - 1) + (IF parts[k].dyn THEN Len(parts[k].enc) ELSE 0)

\* the heads of the parts, then their tails
abi_sequence(parts) ==
    Concat([i \in 1..Len(parts) |->
              IF parts[i].dyn
                THEN Num((32 * Len(parts)) + TailBytes(parts, i - 1))
                ELSE parts[i].enc])
      \o Concat([i \in 1..Len(parts) |->
                   IF parts[i].dyn THEN parts[i].enc ELSE <<>>])

\* a value v of type t as a part: integers are numerals, addresses and byte
\* strings are byte sequences, lists and records are sequences of values
RECURSIVE abi_part(_, _)
abi_part(t, v) ==
    CASE t = TyBool -> [dyn |-> FALSE, enc |-> Num(IF v THEN 1 ELSE 0)]
      [] t[1] \in {"u8", "u16", "u32", "u64", "u128", "U256", "AddressZcp"} ->
           [dyn |-> FALSE, enc |-> PadLeft(v)]
      [] t[1] = "FixedBytesZcp" -> [dyn |-> FALSE, enc |-> PadRight(v)]
      [] t[1] = "BytesZcp" -> [dyn |-> TRUE, enc |-> Num(Len(v)) \o PadRight(v)]
      [] t[1] = "Vec" ->
           [dyn |-> TRUE,
            enc |-> Num(Len(v))
                      \o abi_sequence([i \in 1..Len(v) |-> abi_part(GenericArg(t), v[i])])]
      [] t[1] = "Wrapped" ->
           LET payload == abi_part(GenericArg(t), v).enc
           IN  [dyn |-> TRUE, enc |-> Num(Len(payload)) \o PadRight(payload)]
      [] t[1] \in Structs ->
           LET parts == [j \in 1..Len(v) |-> abi_part(Schema(t[1])[j].ty, v[j])]
           IN  [dyn |-> \E j \in 1..Len(v) : parts[j].dyn,
                enc |-> abi_sequence(parts)]

\* the encoding of the fields of record `name` as a parameter list
abi_encode(name, v) == abi_part(<<name>>, v).enc

\* the values of test_ethabi_static_decode, and smaller ones
Addr1 == <<18, 52, 86, 120, 145, 35, 69, 103, 137, 17, 17, 17, 17, 17, 17, 17, 17, 17, 17, 17>>

Addr2 == <<18, 52, 86, 120, 145, 35, 69, 103, 137, 17, 17, 17, 17, 17, 17, 17, 17, 17, 18, 34>>

Bytes26 == <<16>> \o Zeros(24) \o <<255>>

ByteStrings7 ==
    <<(<<19, 55>>), (<<179, 63>>), (<<164, 176, 80>>), (<<55>>), (<<11>>), (<<22>>), (<<255>>)>>

Fixed8 == <<17, 34, 51, 68, 85, 102, 119, 136>>

ThingyValues ==
    {<<Addr1, Addr2, (<<48, 57>>), d, e, Fixed8>> :
        d \in {<<>>, Bytes26}, e \in {<<>>, <<(<<1, 2, 3>>)>>, ByteStrings7}}

\* the values of statics_list and statics_list_2
FooValues ==
    {<<bar, bools, (<<2, 43>>)>> :
        bar \in {<<>>, <<(<<1>>), (<<2>>), (<<3>>), (<<4>>), (<<5>>)>>},
        bools \in {<<>>, <<TRUE, FALSE, TRUE>>}}

Foo2Values == {<<(<<2, 43>>), bools>> : bools \in {<<>>, <<TRUE, FALSE, TRUE>>}}

\* the values of uint_decodes, and zero
NumeroValues ==
    {<<(<<55>>), (<<2, 43>>), (<<21, 179>>), (<<217, 3>>), (<<8, 122, 35>>)>>,
     <<(<<>>), (<<>>), (<<>>), (<<>>), (<<>>)>>}

Result3Values == {<<ok, data>> : ok \in BOOLEAN, data \in {<<>>, <<1, 2, 3>>, Bytes26}}

\* the values of a record type, each with its encoding
EncodedCases(name) ==
    LET Values == CASE name = "Thingy" -> ThingyValues
                    [] name = "Foo" -> FooValues
                    [] name = "Foo2" -> Foo2Values
                    [] name = "Numero" -> NumeroValues
                    [] name = "Result3" -> Result3Values
    IN  {[v |-> v, buf |-> abi_encode(name, v)] : v \in Values}

EncodedStructs == {"Thingy", "Foo", "Foo2", "Numero", "Result3"}

\* the positions a decoder is called with on an encoded record: its start
\* and the positions its dynamic head slots point to
DynamicPositions(name, c) ==
    {U16At(c.buf, 32 * (j - 1)) :
        j \in {k \in 1..Len(c.v) : field_is_dynamic(Schema(name)[k].ty)}}

\* lists of Result3 as the single parameter of a call result
TuplesValues ==
    {<<>>, <<(<<TRUE, (<<1, 2, 3>>)>>)>>,
     <<(<<TRUE, Bytes26>>), (<<FALSE, (<<>>)>>), (<<TRUE, (<<7>>)>>)>>}

TuplesInputs ==
    {<<abi_sequence(<<abi_part(TyVec(<<"Result3">>), v)>>), 0>> : v \in TuplesValues}

\* ------------------------------- encodings with the tails placed elsewhere
\* the indices of the dynamic parts among parts 1..k, ascending
RECURSIVE DynIndices(_, _)
DynIndices(parts, k) ==
    IF k = 0 THEN <<>>
    ELSE DynIndices(parts, k - 1) \o (IF parts[k].dyn THEN <<k>> ELSE <<>>)

Reverse(s) == [i \in 1..Len(s) |-> s[Len(s) + 1 - i]]

\* the bytes of a gap between tails: they belong to no value
Filler(n) == [i \in 1..n |-> 238]

\* where the k-th tail of the order seq starts, every tail preceded by a gap
RECURSIVE PlacedStart(_, _, _, _)
PlacedStart(parts, seq, k, gap) ==
    IF k = 1 THEN (32 * Len(parts)) + gap
    ELSE PlacedStart(parts, seq, k - 1, gap) + Len(parts[seq[k - 1]].enc) + gap

\* the heads of the parts, then their tails in ascending or reversed order,
\* each behind a gap; the head offsets point to where the tails are
abi_sequence_placed(parts, rev, gap) ==
    LET asc == DynIndices(parts, Len(parts))
        seq == IF rev THEN Reverse(asc) ELSE asc
        pos(i) == CHOOSE k \in 1..Len(seq) : seq[k] = i
    IN  Concat([i \in 1..Len(parts) |->
                  IF parts[i].dyn THEN Num(PlacedStart(parts, seq, pos(i), gap))
                  ELSE parts[i].enc])
          \o Concat([k \in 1..Len(seq) |-> Filler(gap) \o parts[seq[k]].enc])

\* the encoding of the fields of record `name` with its tails placed so
abi_encode_placed(name, v, rev, gap) ==
    abi_sequence_placed([j \in 1..Len(v) |-> abi_part(Schema(name)[j].ty, v[j])],
                        rev, gap)

\* the unwrapped results of decode_vec_of_tuples_with_unwrapping_generic
\* in small: a flag and a pair of reserves
GenericResult3Values ==
    {<<ok, (<<(<<1>>), (<<2, 43>>)>>)>> : ok \in BOOLEAN}

\* the placements of the tails: canonical, behind a gap of one word, reversed
Placements ==
    {[rev |-> FALSE, gap |-> 0], [rev |-> FALSE, gap |-> 32], [rev |-> TRUE, gap |-> 0]}

\* the values of a record type, each with its canonical encoding and an
\* encoding of the same value whose tails are placed elsewhere
PlacedCases(name) ==
    LET Values == CASE name = "Thingy" -> ThingyValues
                    [] name = "Foo" -> FooValues
                    [] name = "Foo2" -> Foo2Values
                    [] name = "Result3" -> Result3Values
                    [] name = "GenericResult3" -> GenericResult3Values
    IN  {[v |-> v, rev |-> pl.rev, gap |-> pl.gap,
          canon |-> abi_encode(name, v),
          buf |-> abi_encode_placed(name, v, pl.rev, pl.gap)] :
            v \in Values, pl \in Placements}

PlacedStructs == {"Thingy", "Foo", "Foo2", "Result3", "GenericResult3"}

PlacedTable == [name \in PlacedStructs |-> PlacedCases(name)]

PlacedInputs ==
    UNION {{<<c.buf, 0>> : c \in PlacedTable[name]} : name \in PlacedStructs}

\* a Result3 as the single, dynamic, parameter of a call result
TupleInputs == {<<Num(32) \o abi_encode("Result3", v), 0>> : v \in Result3Values}

EncodedInputs ==
    UNION {UNION {{<<c.buf, p>> : p \in {0} \cup DynamicPositions(name, c)} :
                    c \in EncodedCases(name)} : name \in EncodedStructs}
      \cup TuplesInputs

Bufs == PoolBufs(MaxWords)

Offsets == {32 * k : k \in 0..(MaxWords - 1)} \cup {1}

\* the first element of the Multicall result as Tuples<T> hands it to
\* T::decode: the buffer from the element's start on
V2_Element0 == SubSeq(V2_RESULTS, 193, Len(V2_RESULTS))

\* the test vectors, each with the positions at which values start in it
ScenarioInputs ==
    ({V2_Element0} \X {0, 32})
      \cup
    ({V2_RESULTS} \X {0, 192, 224, 256})
      \cup ({ThingyInput} \X {0, 32, 64, 160, 192, 256})
      \cup ({UintInput} \X {0, 32, 64, 96, 128})
      \cup ({StaticsListInput} \X {0, 64, 96, 288})
      \cup ({StaticsList2Input} \X {0, 32, 64})

Inputs ==
    (Bufs \X Offsets) \cup ScenarioInputs \cup EncodedInputs \cup PlacedInputs
      \cup TupleInputs

\* what a read outside the allocation can do: kill the process, or yield a byte
UBBytes == {0, 1}

UBChoices == {[abort |-> TRUE, byte |-> 0]} \cup {[abort |-> FALSE, byte |-> b] : b \in UBBytes}

\* no read outside the allocation has happened yet in this invocation
NoUB == [abort |-> FALSE, byte |-> -1]

\* the outcome o has a read outside the allocation
Stray(o, m) == \E r \in o.rd : r[2] > Len(m)

\* the outcome of a call once the choice g is applied to its stray reads
Final(o, m, g) == IF g.abort /\ Stray(o, m) THEN Abort(o.rd) ELSE o

\* the choice under which a computation is probed for stray reads
ProbeUB == [abort |-> FALSE, byte |-> 0]

\* the choices that matter to a computation whose outcome under ProbeUB is
\* o: all of them if it reads outside the allocation, a single one if not
ChoicesFor(o, m) == IF Stray(o, m) THEN UBChoices ELSE {ProbeUB}

\* where a call that ended with outcome o leaves the invocation
Terminal(o) ==
    CASE o.st = "Ok" -> "Done"
      [] o.st = "Err" -> "Fail"
      [] o.st = "Panic" -> "Panicked"
      [] o.st = "Abort" -> "Aborted"

NoResult == [st |-> "None", val |-> <<>>, rd |-> {}]

\* the element types of the Array / [T; N] instances exercised
StaticElems == {TyBool, TyU8, TyU16, TyU256, TyAddress, TyFixedBytes("8")}

DynElems == {TyBytes}

TupleElems == {<<"Result3">>, <<"GenericResult3">>}

\* the payload types of the Wrapped<T> instances exercised
WrappedElems == {<<"UniswapV2Reserves">>, TyBool}

FixedBytesTypes == {TyFixedBytes(n) : n \in {"4", "8", "16", "32"}}

ScalarTypes == {TyAddress, TyBool, TyU8, TyU16, TyU32, TyU64, TyU128, TyU256}
                 \cup FixedBytesTypes

\* the choice open to a step of a derived decoder: what stray reads yield is
\* settled by the first of them in an invocation
StepChoices(o) == IF ub = NoUB THEN ChoicesFor(o, mem) ELSE {ub}

\* the bases a derived decoder is entered with
DeriveBases == {0, 32}

\* ------------------------------------------------------------ the machine
Init ==
    /\ \E in \in Inputs : mem = in[1] /\ offset = in[2]
    /\ pc = "Idle"
    /\ ty = <<>>
    /\ result = NoResult
    /\ cursor = 0
    /\ heads = <<>>
    /\ ub = NoUB
    /\ entry = "none"
    /\ first = NoResult
    /\ threads = <<>>

\* one call T::decode_static(buf, offset) of a library impl, run to its end
Call(t) ==
    /\ pc = "Idle"
    /\ LET p == decode_static(mem, t, Whole(mem), offset, ProbeUB)
       IN  \E g \in ChoicesFor(p, mem) :
             LET o == IF g = ProbeUB THEN p
                      ELSE Final(decode_static(mem, t, Whole(mem), offset, g), mem, g)
             IN  /\ result' = o
                 /\ pc' = Terminal(o)
    /\ ty' = t
    /\ entry' = "decode_static"
    /\ UNCHANGED <<mem, offset, cursor, heads, ub, first, threads>>

DecodeScalar == \E t \in ScalarTypes : Call(t)

DecodeBytes == Call(TyBytes)

DecodeArrayStatic == \E t \in StaticElems : Call(TyArray(t, "false"))

DecodeArrayDyn == \E t \in DynElems : Call(TyArray(t, "true"))

DecodeTuples == \E t \in TupleElems : Call(TyTuples(t))

DecodeTuple == \E t \in TupleElems : Call(TyTuple(t))

DecodeWrapped == \E t \in WrappedElems : Call(TyWrapped(t))

DecodeFixedArray == \E t \in StaticElems : Call(TyFixedArray(t, "2"))

\* the types T::decode(buf) is called for
DecodeTypes ==
    ScalarTypes \cup {TyBytes}
      \cup {TyArray(t, "false") : t \in StaticElems}
      \cup {TyArray(t, "true") : t \in DynElems}
      \cup {TyTuples(t) : t \in TupleElems}
      \cup {TyWrapped(t) : t \in WrappedElems}
      \cup {<<name>> : name \in Structs}

\* one call T::decode(buf) through the trait's provided method, run to its end
CallDecode ==
    /\ pc = "Idle"
    /\ offset = 0
    /\ \E t \in DecodeTypes :
         /\ LET p == decode(mem, t, Whole(mem), ProbeUB)
            IN  \E g \in ChoicesFor(p, mem) :
                  LET o == IF g = ProbeUB THEN p
                           ELSE Final(decode(mem, t, Whole(mem), g), mem, g)
                  IN  /\ result' = o
                      /\ pc' = Terminal(o)
         /\ ty' = t
    /\ entry' = "decode"
    /\ UNCHANGED <<mem, offset, cursor, heads, ub, first, threads>>

\* a second call T::decode(buf) on the same buffer, after the first returned
DecodeAgain ==
    /\ pc \in {"Done", "Fail", "Panicked", "Aborted"}
    /\ entry = "decode"
    /\ first.st = "None"
    /\ LET p == decode(mem, ty, Whole(mem), ProbeUB)
       IN  \E g \in ChoicesFor(p, mem) :
             LET o == IF g = ProbeUB THEN p
                      ELSE Final(decode(mem, ty, Whole(mem), g), mem, g)
             IN  /\ result' = o
                 /\ pc' = Terminal(o)
    /\ first' = result
    /\ UNCHANGED <<mem, offset, ty, cursor, heads, ub, entry, threads>>

\* the helper as_usize applied to the word at offset
ReadAsUsize ==
    /\ pc = "Idle"
    /\ offset <= Len(mem)
    /\ \E g \in ChoicesFor(Ok(0, as_usize_rd(Slice(offset, 0))), mem) :
         LET w == Slice(offset, Len(mem) - offset)
             o == Final(Ok(as_usize(mem, w, g), as_usize_rd(w)), mem, g)
         IN  /\ result' = o
             /\ pc' = Terminal(o)
    /\ ty' = <<"usize">>
    /\ entry' = "as_usize"
    /\ UNCHANGED <<mem, offset, cursor, heads, ub, first, threads>>

\* a derived decode_static(buf, offset) is entered
DeriveStart ==
    /\ pc = "Idle"
    /\ offset \in DeriveBases
    /\ \E name \in Structs : ty' = <<name>>
    /\ pc' = "HeadPass"
    /\ cursor' = 1
    /\ heads' = <<>>
    /\ entry' = "decode_static"
    /\ UNCHANGED <<mem, offset, result, ub, first, threads>>

\* the head statement of field `cursor`
HeadStep ==
    /\ pc = "HeadPass"
    /\ cursor <= Len(Schema(ty[1]))
    /\ \E g \in StepChoices(head_stmt(mem, Schema(ty[1]), cursor, Whole(mem), ProbeUB)) :
         LET r == head_stmt(mem, Schema(ty[1]), cursor, Whole(mem), g)
             o == Final([r EXCEPT !.rd = result.rd \cup r.rd], mem, g)
         IN  /\ ub' = IF Stray(r, mem) THEN g ELSE ub
             /\ IF o.st = "Ok"
                  THEN /\ heads' = Append(heads, r.val)
                       /\ result' = [result EXCEPT !.rd = o.rd]
                       /\ cursor' = cursor + 1
                       /\ pc' = "HeadPass"
                  ELSE /\ result' = o
                       /\ pc' = Terminal(o)
                       /\ UNCHANGED <<heads, cursor>>
    /\ UNCHANGED <<mem, offset, ty, entry, first, threads>>

\* all head statements ran: the struct expression starts
HeadDone ==
    /\ pc = "HeadPass"
    /\ cursor > Len(Schema(ty[1]))
    /\ pc' = "TailPass"
    /\ cursor' = 1
    /\ UNCHANGED <<mem, offset, ty, result, heads, ub, entry, first, threads>>

\* the field initialiser of field `cursor`
TailStep ==
    /\ pc = "TailPass"
    /\ cursor <= Len(Schema(ty[1]))
    /\ \E g \in StepChoices(tail_stmt(mem, Schema(ty[1]), cursor, Whole(mem), heads, ProbeUB)) :
         LET r == tail_stmt(mem, Schema(ty[1]), cursor, Whole(mem), heads, g)
             o == Final([r EXCEPT !.rd = result.rd \cup r.rd], mem, g)
         IN  /\ ub' = IF Stray(r, mem) THEN g ELSE ub
             /\ IF o.st = "Ok"
                  THEN /\ result' = [result EXCEPT !.val = Append(result.val, r.val),
                                                   !.rd = o.rd]
                       /\ cursor' = cursor + 1
                       /\ pc' = "TailPass"
                  ELSE /\ result' = o
                       /\ pc' = Terminal(o)
                       /\ UNCHANGED cursor
    /\ UNCHANGED <<mem, offset, ty, heads, entry, first, threads>>

\* Ok(Self { .. }) is returned
TailDone ==
    /\ pc = "TailPass"
    /\ cursor > Len(Schema(ty[1]))
    /\ result' = [result EXCEPT !.st = "Ok"]
    /\ pc' = "Done"
    /\ UNCHANGED <<mem, offset, ty, cursor, heads, ub, entry, first, threads>>

Next ==
    \/ DecodeScalar
    \/ DecodeBytes
    \/ DecodeArrayStatic
    \/ DecodeArrayDyn
    \/ DecodeTuples
    \/ DecodeTuple
    \/ DecodeWrapped
    \/ DecodeFixedArray
    \/ CallDecode
    \/ DecodeAgain
    \/ ReadAsUsize
    \/ DeriveStart
    \/ HeadStep
    \/ HeadDone
    \/ TailStep
    \/ TailDone

Spec == Init /\ [][Next]_vars

\* ------------------------------------------- concurrent decode calls
\* the number of decode calls that run at the same time
NThreads == 2

Threads == 1..NThreads

\* a call that has not started: its type, its buffer argument, its position
\* in the emitted body and its locals; `mixed` records that the call took a
\* step while another call was between its first and its last step
IdleThread ==
    [ty |-> <<>>, buf |-> Slice(0, 0), pc |-> "Idle", cursor |-> 0,
     heads |-> <<>>, result |-> NoResult, ub |-> NoUB, mixed |-> FALSE]

\* two encoded records side by side in one allocation, or a record and junk
ParLeft == abi_encode("Result3", <<TRUE, (<<1, 2, 3>>)>>)

ParBufs ==
    {ParLeft \o right :
       right \in {abi_encode("Foo2", <<(<<2, 43>>), (<<TRUE, FALSE, TRUE>>)>>),
                  abi_encode_placed("GenericResult3", <<TRUE, (<<(<<1>>), (<<2, 43>>)>>)>>,
                                    FALSE, 0),
                  Num(1) \o Num(2)}}

\* the calls made: over the whole allocation, or over one of two disjoint
\* buffers in it
ParJobs(m) ==
    {[ty |-> <<"Result3">>, buf |-> Whole(m)],
     [ty |-> <<"Result3">>, buf |-> Slice(0, Len(ParLeft))],
     [ty |-> <<"Foo2">>, buf |-> Slice(Len(ParLeft), Len(m) - Len(ParLeft))],
     [ty |-> <<"GenericResult3">>, buf |-> Slice(Len(ParLeft), Len(m) - Len(ParLeft))]}

\* a read that takes the bytes it reads out of the buffer
exclusive_borrow_take(m, rd) ==
    [k \in 1..Len(m) |-> IF \E r \in rd : r[1] < k /\ k <= r[2] THEN 0 ELSE m[k]]

\* buf: &'a [u8] is a shared borrow: the reads rd leave the bytes as they are
shared_borrow(m, rd) == m

\* the choice open to a step of call th (see StepChoices)
ThreadChoices(th, o, m) == IF th.ub = NoUB THEN ChoicesFor(o, m) ELSE {th.ub}

\* call i took a step: was another call under way?
Mixed(ths, i, th) ==
    [th EXCEPT !.mixed = @ \/ \E j \in DOMAIN ths :
                                 j # i /\ ths[j].pc \in {"HeadPass", "TailPass"}]

\* the head statement of field th.cursor, run on the locals of call th
thread_head_step(m, th, g) ==
    LET r == head_stmt(m, Schema(th.ty[1]), th.cursor, th.buf, g)
        o == Final([r EXCEPT !.rd = th.result.rd \cup r.rd], m, g)
        u == IF Stray(r, m) THEN g ELSE th.ub
    IN  IF o.st = "Ok"
          THEN [th EXCEPT !.heads = Append(@, r.val), !.result.rd = o.rd,
                          !.cursor = @ + 1, !.ub = u]
          ELSE [th EXCEPT !.result = o, !.pc = Terminal(o), !.ub = u]

\* the field initialiser of field th.cursor, run on the locals of call th
thread_tail_step(m, th, g) ==
    LET r == tail_stmt(m, Schema(th.ty[1]), th.cursor, th.buf, th.heads, g)
        o == Final([r EXCEPT !.rd = th.result.rd \cup r.rd], m, g)
        u == IF Stray(r, m) THEN g ELSE th.ub
    IN  IF o.st = "Ok"
          THEN [th EXCEPT !.result.val = Append(@, r.val), !.result.rd = o.rd,
                          !.cursor = @ + 1, !.ub = u]
          ELSE [th EXCEPT !.result = o, !.pc = Terminal(o), !.ub = u]

ParInit ==
    /\ mem \in ParBufs
    /\ offset = 0
    /\ pc = "Idle"
    /\ ty = <<>>
    /\ result = NoResult
    /\ cursor = 0
    /\ heads = <<>>
    /\ ub = NoUB
    /\ entry = "none"
    /\ first = NoResult
    /\ threads = [i \in Threads |-> IdleThread]

\* a thread enters a derived decode(buf)
ParStart ==
    /\ \E i \in Threads :
         /\ threads[i].pc = "Idle"
         /\ \E job \in ParJobs(mem) :
              threads' = [threads EXCEPT ![i] =
                            [@ EXCEPT !.ty = job.ty, !.buf = job.buf,
                                      !.pc = "HeadPass", !.cursor = 1]]
    /\ UNCHANGED <<mem, offset, pc, ty, result, cursor, heads, ub, entry, first>>

\* a thread runs its next head statement
ParHeadStep ==
    /\ \E i \in Threads :
         LET th == threads[i]
         IN  /\ th.pc = "HeadPass"
             /\ th.cursor <= Len(Schema(th.ty[1]))
             /\ LET p == head_stmt(mem, Schema(th.ty[1]), th.cursor, th.buf, ProbeUB)
                IN  /\ \E g \in ThreadChoices(th, p, mem) :
                         threads' = [threads EXCEPT ![i] =
                                       Mixed(threads, i, thread_head_step(mem, th, g))]
                    /\ mem' = shared_borrow(mem, p.rd)
    /\ UNCHANGED <<offset, pc, ty, result, cursor, heads, ub, entry, first>>

\* a thread has run all its head statements
ParHeadDone ==
    /\ \E i \in Threads :
         /\ threads[i].pc = "HeadPass"
         /\ threads[i].cursor > Len(Schema(threads[i].ty[1]))
         /\ threads' = [threads EXCEPT ![i] =
                          Mixed(threads, i, [@ EXCEPT !.pc = "TailPass", !.cursor = 1])]
    /\ UNCHANGED <<mem, offset, pc, ty, result, cursor, heads, ub, entry, first>>

\* a thread runs its next field initialiser
ParTailStep ==
    /\ \E i \in Threads :
         LET th == threads[i]
         IN  /\ th.pc = "TailPass"
             /\ th.cursor <= Len(Schema(th.ty[1]))
             /\ LET p == tail_stmt(mem, Schema(th.ty[1]), th.cursor, th.buf, th.heads,
                                   ProbeUB)
                IN  /\ \E g \in ThreadChoices(th, p, mem) :
                         threads' = [threads EXCEPT ![i] =
                                       Mixed(threads, i, thread_tail_step(mem, th, g))]
                    /\ mem' = shared_borrow(mem, p.rd)
    /\ UNCHANGED <<offset, pc, ty, result, cursor, heads, ub, entry, first>>

\* a thread returns Ok(Self { .. })
ParTailDone ==
    /\ \E i \in Threads :
         /\ threads[i].pc = "TailPass"
         /\ threads[i].cursor > Len(Schema(threads[i].ty[1]))
         /\ threads' = [threads EXCEPT ![i] =
                          Mixed(threads, i, [@ EXCEPT !.result.st = "Ok", !.pc = "Done"])]
    /\ UNCHANGED <<mem, offset, pc, ty, result, cursor, heads, ub, entry, first>>

ParNext ==
    \/ ParStart
    \/ ParHeadStep
    \/ ParHeadDone
    \/ ParTailStep
    \/ ParTailDone

SpecPar == ParInit /\ [][ParNext]_vars

\* ------------------------------------------------------------ properties
\* the bytes a view covers
ViewBytes(m, v) == [i \in 1..v.len |-> m[v.ptr + i]]

\* the word starting at byte position p
WordAt(m, p) == SubSeq(m, p + 1, p + 32)

\* the canonical numeral of n < 65536
ToNumeral(n) == StripZeros(<<n \div 256, n % 256>>)

\* the call has returned or died
Returned == pc \in {"Done", "Fail", "Panicked", "Aborted"}

\* the word at offset lies inside the buffer
WordInside == offset + 32 <= Len(mem)

UintTypes == {TyU8, TyU16, TyU32, TyU64, TyU128}

\* W / 8 of uintW
UintBytes(t) ==
    CASE t = TyU8 -> 1 [] t = TyU16 -> 2 [] t = TyU32 -> 4
      [] t = TyU64 -> 8 [] t = TyU128 -> 16 [] t = TyU256 -> 32

\* C2: for every buffer and offset with offset + 32 <= len(buf), the address
\* decoder returns a 20-byte view whose bytes are buf[offset+12 .. offset+32).
C2_AddressView ==
    (Returned /\ ty = TyAddress /\ WordInside)
        => /\ result.st = "Ok"
           /\ result.val.len = 20
           /\ ViewBytes(mem, result.val) = SubSeq(mem, offset + 13, offset + 32)

\* C3: for each width W in {8,16,32,64,128} and every word inside the buffer
\* the uintW decoder returns the big-endian value of the W/8 rightmost bytes
\* of the word, whatever the upper padding bytes hold: the result is the
\* canonical numeral which, left-padded with zero digits, is those bytes.
C3_UintValue ==
    (Returned /\ ty \in UintTypes /\ WordInside)
        => /\ result.st = "Ok"
           /\ Len(result.val) <= UintBytes(ty)
           /\ (result.val # <<>> => result.val[1] # 0)
           /\ Zeros(UintBytes(ty) - Len(result.val)) \o result.val
                = SubSeq(mem, offset + 33 - UintBytes(ty), offset + 32)

\* a u64 is decoded from a word whose padding bytes are not zero
C3_Witness ==
    /\ pc = "Done" /\ ty = TyU64 /\ WordInside
    /\ mem[offset + 1] # 0
    /\ Len(result.val) = 8

\* C4: for every word inside the buffer the bool decoder returns true iff the
\* byte at offset + 31 equals 1; every other byte value decodes to false and
\* the other 31 bytes do not matter.
C4_BoolByte ==
    (Returned /\ ty = TyBool /\ WordInside)
        => /\ result.st = "Ok"
           /\ (result.val <=> (mem[offset + 32] = 1))

\* a byte other than 0 and 1 is decoded to false
C4_Witness ==
    /\ pc = "Done" /\ ty = TyBool /\ WordInside
    /\ mem[offset + 32] = 2
    /\ result.val = FALSE

\* C5: for N in {4,8,16,32} and offset + 32 <= len(buf) the bytesN decoder
\* returns an N-byte view whose bytes are buf[offset .. offset+N).
C5_FixedBytesView ==
    (Returned /\ ty \in FixedBytesTypes /\ WordInside)
        => /\ result.st = "Ok"
           /\ result.val.len = ConstOf(ty[3])
           /\ ViewBytes(mem, result.val)
                = SubSeq(mem, offset + 1, offset + ConstOf(ty[3]))

\* C6: the bytes decoder called with position p reads len as the low 16 bits
\* of the word at p and returns a view of exactly len bytes, those of
\* buf[p+32 .. p+32+len); the padding after them is not part of the view.
C6_BytesView ==
    (Returned /\ ty = TyBytes /\ WordInside
       /\ offset + 32 + U16At(mem, offset) <= Len(mem))
        => /\ result.st = "Ok"
           /\ result.val.len = U16At(mem, offset)
           /\ result.val.ptr = offset + 32
           /\ ViewBytes(mem, result.val)
                = SubSeq(mem, offset + 33, offset + 32 + U16At(mem, offset))

\* a view shorter than a word is bound inside the buffer
C6_Witness ==
    /\ pc = "Done" /\ ty = TyBytes /\ WordInside
    /\ U16At(mem, offset) \in 1..31
    /\ offset + 32 + U16At(mem, offset) <= Len(mem)
    /\ result.val.len = U16At(mem, offset)

\* the fields of the record under decode whose head slot was read as an offset
HeadOffsetFields ==
    IF Len(ty) = 1 /\ ty[1] \in Structs
      THEN {i \in 1..Len(heads) :
              /\ ~Schema(ty[1])[i].skip
              /\ field_is_dynamic(Schema(ty[1])[i].ty)
              /\ (32 * i) <= Len(mem)}
      ELSE {}

\* C7: every offset read and every length read (as_usize and the head read
\* the derive emits) returns byte30 * 256 + byte31 of the word: the word's
\* value modulo 2^16, equal to the full value exactly when that value is at
\* most 65535, and different from it (and at most 65535) otherwise.
C7_LowSixteenBits ==
    /\ (Returned /\ ty = <<"usize">> /\ WordInside)
         => LET w == WordAt(mem, offset)
                full == StripZeros(w)
            IN  /\ result.st = "Ok"
                /\ result.val = (w[31] * 256) + w[32]
                /\ result.val <= 65535
                /\ ToNumeral(result.val) = StripZeros(SubSeq(w, 31, 32))
                /\ (ToNumeral(result.val) = full) <=> (Len(full) <= 2)
    /\ \A i \in HeadOffsetFields :
         LET w == WordAt(mem, 32 * (i - 1))
         IN  /\ heads[i] = (w[31] * 256) + w[32]
             /\ (ToNumeral(heads[i]) = StripZeros(w)) <=> (Len(StripZeros(w)) <= 2)

\* a word worth more than 65535 was read as a length
C7_Witness ==
    /\ pc = "Done" /\ ty = <<"usize">> /\ WordInside
    /\ Len(StripZeros(WordAt(mem, offset))) > 2
    /\ result.val = 1

\* what the specification's decoding of the word at byte position p is, for a
\* one-word element type t, compared with the decoded element v
ElemMatches(t, m, v, p) ==
    CASE t = TyBool -> (v <=> (m[p + 32] = 1))
      [] t \in UintTypes \cup {TyU256} ->
           v = StripZeros(SubSeq(m, p + 33 - UintBytes(t), p + 32))
      [] t = TyAddress ->
           v.len = 20 /\ ViewBytes(m, v) = SubSeq(m, p + 13, p + 32)
      [] t[1] = "FixedBytesZcp" ->
           /\ v.len = ConstOf(t[3])
           /\ ViewBytes(m, v) = SubSeq(m, p + 1, p + ConstOf(t[3]))

\* C8: the static-element array decoder called with position base reads L
\* as the low 16 bits of the word at base and returns exactly L elements,
\* element i being the element type's decoding of the word at
\* base + 32 + 32*i, in index order; for L = 0 the result is empty.
C8_StaticArrayElems ==
    \A t \in StaticElems :
      (Returned /\ ty = TyArray(t, "false") /\ WordInside
         /\ offset + 32 + (32 * U16At(mem, offset)) <= Len(mem))
        => /\ result.st = "Ok"
           /\ Len(result.val) = U16At(mem, offset)
           /\ \A i \in 0..(U16At(mem, offset) - 1) :
                ElemMatches(t, mem, result.val[i + 1], offset + 32 + (32 * i))

\* the start of element i of a list whose length word is at position base
ElemStart(m, base, i) == base + 32 + U16At(m, base + 32 + (32 * i))

\* the list at base has its offset table, and every element's length word
\* and bytes, inside the buffer
DynArrayInside(m, base) ==
    /\ base + 32 <= Len(m)
    /\ base + 32 + (32 * U16At(m, base)) <= Len(m)
    /\ \A i \in 0..(U16At(m, base) - 1) :
         /\ ElemStart(m, base, i) + 32 <= Len(m)
         /\ ElemStart(m, base, i) + 32 + U16At(m, ElemStart(m, base, i)) <= Len(m)

\* C9: the dynamic-element array decoder called with position base reads L
\* at base, reads for each i < L the offset o_i from the word at
\* base + 32 + 32*i and decodes element i at base + 32 + o_i (the offset
\* counts from the slot after the length word, not from base); the result
\* has exactly L elements in index order.
C9_DynArrayElems ==
    (Returned /\ ty = TyArray(TyBytes, "true") /\ DynArrayInside(mem, offset))
        => /\ result.st = "Ok"
           /\ Len(result.val) = U16At(mem, offset)
           /\ \A i \in 0..(U16At(mem, offset) - 1) :
                LET e == ElemStart(mem, offset, i)
                IN  result.val[i + 1] = Slice(e + 32, U16At(mem, e))

\* a list of several byte strings whose offsets are not zero was decoded
C9_Witness ==
    /\ pc = "Done" /\ ty = TyArray(TyBytes, "true") /\ DynArrayInside(mem, offset)
    /\ U16At(mem, offset) >= 3
    /\ \A i \in 0..(U16At(mem, offset) - 1) :
         U16At(mem, offset + 32 + (32 * i)) >= 32 * U16At(mem, offset)
    /\ Len(result.val) = U16At(mem, offset)
    /\ result.val[1].len > 0

\* the position of the bytes field of the Result3 element that starts at e
DataStart(m, e) == e + U16At(m, e + 32)

\* the tuple list reached through the word at off has its table, and every
\* element's head, length word and bytes, inside the buffer
TuplesInside(m, off) ==
    /\ off + 32 <= Len(m)
    /\ U16At(m, off) + 32 <= Len(m)
    /\ U16At(m, off) + 32 + (32 * U16At(m, U16At(m, off))) <= Len(m)
    /\ \A i \in 0..(U16At(m, U16At(m, off)) - 1) :
         LET e == ElemStart(m, U16At(m, off), i)
         IN  /\ e + 64 <= Len(m)
             /\ DataStart(m, e) + 32 <= Len(m)
             /\ DataStart(m, e) + 32 + U16At(m, DataStart(m, e)) <= Len(m)

\* C10: the Tuples<T> decoder called with (buf, offset) reads the outer
\* indirection p from the word at offset and the length L from the word at
\* p, and decodes element i as a standalone T over the sub-buffer that
\* starts at p + 32 + o_i, o_i being the word at p + 32 + 32*i; interior
\* offsets of an element count from the element's own start, so the view of
\* its bytes field starts at (p + 32 + o_i) + inner offset + 32.
C10_TuplesElems ==
    (Returned /\ ty = TyTuples(<<"Result3">>) /\ TuplesInside(mem, offset))
        => LET p == U16At(mem, offset)
           IN  /\ result.st = "Ok"
               /\ Len(result.val) = U16At(mem, p)
               /\ \A i \in 0..(U16At(mem, p) - 1) :
                    LET e == ElemStart(mem, p, i)
                        d == DataStart(mem, e)
                    IN  /\ result.val[i + 1][1] <=> (mem[e + 32] = 1)
                        /\ result.val[i + 1][2] = Slice(d + 32, U16At(mem, d))

\* a list of several tuples, reached through a non-zero indirection, whose
\* elements have non-empty bytes fields was decoded
C10_Witness ==
    /\ pc = "Done" /\ ty = TyTuples(<<"Result3">>) /\ TuplesInside(mem, offset)
    /\ U16At(mem, offset) > 0
    /\ U16At(mem, U16At(mem, offset)) >= 2
    /\ Len(result.val) = U16At(mem, U16At(mem, offset))
    /\ result.val[2][1]
    /\ result.val[2][2].len > 0
    /\ result.val[2][2].ptr > result.val[1][2].ptr

\* the decoded value dv of type t, over buffer m, equals the value v
RECURSIVE FieldEq(_, _, _, _)
FieldEq(t, m, dv, v) ==
    CASE t = TyBool -> (dv <=> v)
      [] t[1] \in {"u8", "u16", "u32", "u64", "u128", "U256"} -> dv = v
      [] t[1] \in {"AddressZcp", "FixedBytesZcp", "BytesZcp"} ->
           /\ dv.len = Len(v)
           /\ dv.ptr + dv.len <= Len(m)
           /\ ViewBytes(m, dv) = v
      [] t[1] = "Vec" ->
           /\ Len(dv) = Len(v)
           /\ \A i \in 1..Len(v) : FieldEq(GenericArg(t), m, dv[i], v[i])

\* C1: for every derived record over the supported field types and every
\* buffer a reference ABI encoder produces for a value v (offsets and lengths
\* at most 65535), decode succeeds and every decoded field equals the
\* corresponding field of v, borrowed views compared bytewise.
C1_RoundTrip ==
    \A name \in EncodedStructs :
      (Returned /\ ty = <<name>>)
        => \A c \in EncodedCases(name) :
             mem = c.buf
               => /\ result.st = "Ok"
                  /\ \A j \in 1..Len(c.v) :
                       FieldEq(Schema(name)[j].ty, mem, result.val[j], c.v[j])

\* C11: the Wrapped<T> decoder called with head position p reads L as the
\* low 16 bits of the word at p and decodes T at offset 0 of the sub-buffer
\* buf[p+64 .. p+64+L): T sees a buffer of exactly L bytes that begins 64
\* bytes after p.  A payload of two u128 words is read from the words at
\* p+64 and p+96; a bool payload, whose read of byte 31 is checked against
\* the sub-buffer, decodes exactly when L >= 32.
C11_WrappedRegion ==
    (Returned /\ ty[1] = "Wrapped" /\ WordInside
       /\ offset + 64 + U16At(mem, offset) <= Len(mem))
        => /\ (ty = TyWrapped(<<"UniswapV2Reserves">>) /\ U16At(mem, offset) >= 64)
                => /\ result.st = "Ok"
                   /\ result.val[1] = StripZeros(SubSeq(mem, offset + 81, offset + 96))
                   /\ result.val[2] = StripZeros(SubSeq(mem, offset + 113, offset + 128))
           /\ ty = TyWrapped(TyBool)
                => /\ (result.st = "Ok") <=> (U16At(mem, offset) >= 32)
                   /\ result.st = "Ok" => (result.val <=> (mem[offset + 96] = 1))

\* a wrapped pair of reserves was decoded from an inner region of 64 bytes
\* that starts 64 bytes after a head position other than 0
C11_Witness ==
    /\ pc = "Done" /\ ty = TyWrapped(<<"UniswapV2Reserves">>)
    /\ offset > 0 /\ WordInside
    /\ U16At(mem, offset) = 64
    /\ offset + 128 <= Len(mem)
    /\ Len(result.val[1]) > 0
    /\ result.val[1] # result.val[2]

\* the fields of record `name` that are marked #[ethabi(skip)]
SkippedFields(name) == {j \in 1..Len(Schema(name)) : Schema(name)[j].skip}

\* the skipped fields of the record value v of type `name` hold defaults
SkippedAreDefault(name, v) ==
    \A j \in SkippedFields(name) : v[j] = Default(Schema(name)[j].ty)

\* C12: for any derived record and any field marked #[ethabi(skip)], the
\* decoded value of that field is the field type's default for every input
\* buffer: no byte of the buffer influences it, so any two buffers give the
\* same value for the skipped field (alone, or as an element of Tuples<T>).
C12_SkipIsDefault ==
    /\ (pc = "Done" /\ Len(ty) = 1 /\ ty[1] \in Structs)
         => SkippedAreDefault(ty[1], result.val)
    /\ (pc = "TailPass" /\ cursor > 1) => SkippedAreDefault(ty[1], result.val)
    /\ (pc = "Done" /\ ty[1] \in {"Tuples", "Tuple"})
         => IF ty[1] = "Tuple" THEN SkippedAreDefault(ty[3], result.val)
            ELSE \A i \in 1..Len(result.val) : SkippedAreDefault(ty[3], result.val[i])

\* a record whose skipped bool field got false although the head slot the
\* field would have been read from holds 1
C12_Witness ==
    /\ pc = "Done" /\ ty = <<"GenericResult3">>
    /\ ~Stray(result, mem)
    /\ mem[32] = 1
    /\ result.val[1] = FALSE
    /\ Len(result.val[2][1]) > 0

\* a derived decoder is running or has returned
InDerive == Len(ty) = 1 /\ ty[1] \in Structs

\* the head statement of a field of type t, whose binding is v, read the
\* head slot at byte position pos (the address and bytesN impls take no
\* position, so their bindings tell nothing)
HeadReadAt(t, v, pos) ==
    CASE field_is_dynamic(t) -> v = U16At(mem, pos)
      [] t[1] \in {"bool", "u8", "u16", "u32", "u64", "u128", "U256"} ->
           ElemMatches(t, mem, v, pos)
      [] t[1] = "Wrapped" -> <<pos + 30, pos + 32>> \in result.rd
      [] OTHER -> TRUE

\* the number of non-skipped fields declared before field i of record `name`
UnskippedBefore(name, i) == Cardinality({k \in 1..(i - 1) : ~Schema(name)[k].skip})

\* C13 as stated: a field marked skip occupies no head slot: the head slot
\* position of every non-skipped field is 32 times the number of non-skipped
\* fields declared before it.
C13_SkipTakesNoSlot ==
    InDerive =>
      \A i \in 1..Len(heads) :
        (~Schema(ty[1])[i].skip /\ (32 * i) <= Len(mem))
          => HeadReadAt(Schema(ty[1])[i].ty, heads[i], 32 * UnskippedBefore(ty[1], i))

\* C13 amended: a field marked skip keeps its head slot, which is not read:
\* the head slot position of every non-skipped field is 32 times the number
\* of fields, skipped or not, declared before it.
C13_SkipKeepsSlot ==
    InDerive =>
      \A i \in 1..Len(heads) :
        (~Schema(ty[1])[i].skip /\ (32 * i) <= Len(mem))
          => HeadReadAt(Schema(ty[1])[i].ty, heads[i], 32 * (i - 1))

\* the field after a skipped one was read from the second head slot, the
\* first slot being left unread
C13_Witness ==
    /\ pc = "Done" /\ ty = <<"GenericResult3">>
    /\ ~Stray(result, mem)
    /\ <<62, 64>> \in result.rd
    /\ <<30, 32>> \notin result.rd

\* the outcomes a and b are the same value, or the same failure
SameOutcome(a, b) ==
    /\ a.st = b.st
    /\ a.st = "Ok" => a.val = b.val

\* C14: for every type implementing the decoder protocol and every buffer,
\* decode(buf) returns exactly the same outcome (same value, or same
\* failure) as decode_static(buf, 0).
C14_DecodeIsDecodeStaticAtZero ==
    (Returned /\ entry = "decode")
        => \E g \in ChoicesFor(decode_static(mem, ty, Whole(mem), 0, ProbeUB), mem) :
             LET o == Final(decode_static(mem, ty, Whole(mem), 0, g), mem, g)
             IN  SameOutcome(result, o) /\ result.rd = o.rd

\* decode returned a record whose first fields were read from the first
\* words of a buffer whose second word holds something else
C14_Witness ==
    /\ pc = "Done" /\ entry = "decode" /\ ty = <<"Numero">>
    /\ Len(mem) >= 160
    /\ WordAt(mem, 0) # WordAt(mem, 32)
    /\ result.val[1] = StripZeros(<<mem[32]>>)
    /\ result.val[1] # <<>>

\* the derived records all of whose fields are one-word integers
StaticRecords == {"Numero", "UniswapV2Reserves"}

\* C15: a derived record decoder called with (buf, base) reads the head slot
\* of its i-th declared field at byte position base + 32*i, for every base:
\* a record with only static fields decoded at base is the record decoded
\* at offset 0 of buf[base..].
C15_HeadAtBase ==
    (pc = "Done" /\ InDerive /\ entry = "decode_static" /\ ty[1] \in StaticRecords
       /\ offset + (32 * Len(Schema(ty[1]))) <= Len(mem))
        => \A i \in 1..Len(Schema(ty[1])) :
             ElemMatches(Schema(ty[1])[i].ty, mem, result.val[i], offset + (32 * (i - 1)))

\* the decoders that decode nested elements or fields
IsComposite == InDerive \/ (Len(ty) > 1 /\ ty[1] \in {"Array", "Tuples", "Tuple", "Wrapped", "["})

\* C16: if decoding of any nested element or field fails, the enclosing
\* decoder (derived record, Array, Tuples, Tuple, Wrapped) returns the
\* failure value to its caller: the call never ends in a panic and never
\* returns a partially filled result.
C16_FailureIsReturned ==
    (Returned /\ IsComposite)
        => /\ result.st \in {"Ok", "Err"}
           /\ result.st = "Err" => result.val = <<>>

\* C17: a scalar decoder (address, bool, uintN, uint256, bytesN) called with
\* (buf, offset) returns success whenever the word [offset, offset+32) lies
\* inside buf, and returns the failure value, without reading past the end
\* of buf, whenever offset + 32 > len(buf).
C17_ScalarTotal ==
    (Returned /\ ty \in ScalarTypes /\ entry = "decode_static")
        => IF WordInside THEN result.st = "Ok"
           ELSE result.st = "Err" /\ ~Stray(result, mem)

\* the buffers the reference encoder produces for the values of each record
ValidBufs == [name \in EncodedStructs |-> {c.buf : c \in EncodedCases(name)}]

\* the buffers that encode a list of Result3 as a single parameter
ValidTuplesBufs == {in[1] : in \in TuplesInputs} \cup {V2_RESULTS}

\* every read made so far lies inside the buffer
ReadsInside == \A r \in result.rd : 0 <= r[1] /\ r[2] <= Len(mem)

\* C18: for every record type and every valid (reference-encoded) buffer of
\* length L >= 32, every byte index the decoder reads during the decode,
\* through checked or unchecked access, lies in [0, L).
C18_ReadsInsideValid ==
    /\ \A name \in EncodedStructs :
         (ty = <<name>> /\ mem \in ValidBufs[name] /\ entry \in {"decode", "decode_static"})
           => Len(mem) >= 32 /\ ReadsInside
    /\ (ty = TyTuples(<<"Result3">>) /\ offset = 0 /\ mem \in ValidTuplesBufs)
         => ReadsInside

\* the whole of the longest test input was decoded, its last length word
\* read close to the end of the buffer
C18_Witness ==
    /\ pc = "Done" /\ ty = <<"Thingy">> /\ mem \in ValidBufs["Thingy"]
    /\ Len(result.val[5]) = 7
    /\ \E r \in result.rd : r[2] + 32 = Len(mem)
    /\ ReadsInside

\* every borrowed view in the value v of type t lies inside the buffer m
RECURSIVE ViewsInside(_, _, _)
ViewsInside(t, m, v) ==
    CASE t[1] \in {"AddressZcp", "FixedBytesZcp", "BytesZcp"} ->
           0 <= v.ptr /\ v.ptr + v.len <= Len(m)
      [] t[1] \in {"Array", "Tuples", "Vec"} ->
           \A i \in 1..Len(v) : ViewsInside(GenericArg(t), m, v[i])
      [] t[1] = "[" ->
           \A i \in 1..Len(v) : ViewsInside(SubSeq(t, 2, Len(t) - 3), m, v[i])
      [] t[1] \in {"Tuple", "Wrapped"} -> ViewsInside(GenericArg(t), m, v)
      [] t[1] \in Structs ->
           \A j \in 1..Len(Schema(t[1])) :
             Schema(t[1])[j].skip \/ ViewsInside(Schema(t[1])[j].ty, m, v[j])
      [] OTHER -> TRUE

\* C19: for every input buffer, malformed ones included, every borrowed view
\* (address, bytesN, bytes) contained in a successfully returned value covers
\* a byte range [P, P+len) that lies entirely inside the input buffer, and
\* no successful decode performs a read beyond the buffer.
C19_ViewsInside ==
    (pc = "Done" /\ entry \in {"decode", "decode_static"})
        => /\ ~Stray(result, mem)
           /\ ViewsInside(ty, mem, result.val)

\* C20: decoding is deterministic and leaves its input untouched: two decode
\* calls of the same type on the same buffer return equal results (equal
\* trees or both failure), and the buffer contents after a decode equal the
\* contents before it.
C20_Deterministic ==
    /\ [](first.st # "None" => SameOutcome(first, result))
    /\ [][mem' = mem]_vars

\* the value v of type t decoded over buffer m, its borrowed views replaced
\* by the bytes they cover
RECURSIVE Tree(_, _, _)
Tree(t, m, v) ==
    CASE t[1] \in {"AddressZcp", "FixedBytesZcp", "BytesZcp"} ->
           IF 0 <= v.ptr /\ v.ptr + v.len <= Len(m)
             THEN [inside |-> TRUE, bytes |-> ViewBytes(m, v)]
             ELSE [inside |-> FALSE, bytes |-> <<>>]
      [] t[1] \in {"Array", "Tuples", "Vec"} ->
           [i \in 1..Len(v) |-> Tree(GenericArg(t), m, v[i])]
      [] t[1] \in {"Tuple", "Wrapped"} -> Tree(GenericArg(t), m, v)
      [] t[1] \in Structs ->
           [j \in 1..Len(v) |-> Tree(Schema(t[1])[j].ty, m, v[j])]
      [] OTHER -> v

\* C21: for every derived record (records with bytes, array and Wrapped
\* fields included) and every two buffers that encode the same value and
\* differ only in where the tail payloads are placed (reordered, or behind
\* gaps, the head offsets adjusted), decode returns equal records: the
\* decode of a relocated encoding equals the decode of the canonical one.
C21_TailPlacement ==
    (Returned /\ InDerive /\ ty[1] \in PlacedStructs)
        => \A c \in PlacedTable[ty[1]] :
             mem = c.buf
               => LET o == decode(c.canon, ty, Whole(c.canon), ProbeUB)
                  IN  /\ result.st = o.st
                      /\ o.st = "Ok"
                           => Tree(ty, mem, result.val) = Tree(ty, c.canon, o.val)

\* what the call of thread record th returns when it runs alone
AloneOutcome(th) ==
    LET g == IF th.ub = NoUB THEN ProbeUB ELSE th.ub
    IN  Final(derive_decode_static(mem, th.ty[1], th.buf, 0, g), mem, g)

\* C22: when two or more decode calls run concurrently over the same
\* read-only buffer (or over disjoint buffers), every interleaving of their
\* steps gives each call the result it gives when run alone, and no step of
\* one call writes state that another call reads: a step changes the locals
\* of its own call only, and never the buffer.
C22_Isolation ==
    /\ [](\A i \in DOMAIN threads :
            threads[i].pc \in {"Done", "Fail", "Panicked", "Aborted"}
              => LET o == AloneOutcome(threads[i])
                 IN  /\ SameOutcome(threads[i].result, o)
                     /\ o.st = "Ok" => threads[i].result.rd = o.rd)
    /\ [][/\ mem' = mem
          /\ \A i \in DOMAIN threads :
               threads'[i] # threads[i]
                 => \A j \in DOMAIN threads \ {i} : threads'[j] = threads[j]]_vars

\* two calls over the same buffer have both returned a record, each having
\* taken steps while the other was under way
C22_Witness ==
    \E i, j \in DOMAIN threads :
      /\ i # j
      /\ threads[i].pc = "Done" /\ threads[j].pc = "Done"
      /\ threads[i].mixed /\ threads[j].mixed
      /\ threads[i].buf = threads[j].buf
      /\ threads[i].ty # threads[j].ty
      /\ Len(threads[i].result.val) = 2 /\ Len(threads[j].result.val) = 2

\* the Result3 that starts at t has its head, its length word and its bytes
\* inside the buffer
TupleInside(m, off) ==
    /\ off + 32 <= Len(m)
    /\ U16At(m, off) + 64 <= Len(m)
    /\ DataStart(m, U16At(m, off)) + 32 <= Len(m)
    /\ DataStart(m, U16At(m, off)) + 32
          + U16At(m, DataStart(m, U16At(m, off))) <= Len(m)

\* C23: the Tuple<T> decoder called with (buf, offset) reads the tail offset
\* t from the word at offset and decodes T at offset 0 of the sub-buffer
\* buf[t..]: every interior offset of T is measured from t, the start of
\* the tuple, so the bool of a Result3 is the word at t and its bytes field
\* starts at t + inner offset + 32.
C23_TupleFromOwnStart ==
    (Returned /\ ty = TyTuple(<<"Result3">>) /\ TupleInside(mem, offset))
        => LET t == U16At(mem, offset)
               d == DataStart(mem, t)
           IN  /\ result.st = "Ok"
               /\ result.val[1] <=> (mem[t + 32] = 1)
               /\ result.val[2] = Slice(d + 32, U16At(mem, d))

\* a tuple that starts behind the first word was decoded, its bytes field
\* found through an offset counted from the tuple's start
C23_Witness ==
    /\ pc = "Done" /\ ty = TyTuple(<<"Result3">>) /\ TupleInside(mem, offset)
    /\ U16At(mem, offset) = 32
    /\ U16At(mem, 64) = 64
    /\ result.val[1]
    /\ result.val[2] = Slice(128, 3)

InSteps == InDerive /\ entry = "decode_static"

\* a field before field c whose head statement decodes a whole Wrapped<T>
WrappedBefore(fs, c) == \E k \in 1..(c - 1) : ~fs[k].skip /\ fs[k].ty[1] = "Wrapped"

\* the number of head words the head statement of a field of type t reads
SlotWidth(t) == IF t[1] = "[" THEN ConstOf(t[Len(t) - 1]) ELSE 1

\* the end, in words, of the head slots read by the head statements of the
\* fields before field c
SlotsEnd(fs, c) ==
    IF c = 1 THEN 0
    ELSE LET ends == {k - 1 + SlotWidth(fs[k].ty) : k \in 1..(c - 1)}
         IN  CHOOSE e \in ends : \A d \in ends : d <= e

\* the order of the steps taken so far in a derived decode
StepsInOrder ==
    LET fs == Schema(ty[1])
    IN  /\ pc = "HeadPass"
             => /\ Len(heads) = cursor - 1
                /\ result.val = <<>>
                /\ WrappedBefore(fs, cursor)
                     \/ \A r \in result.rd : r[2] <= 32 * SlotsEnd(fs, cursor)
        /\ pc = "TailPass"
             => /\ Len(heads) = Len(fs)
                /\ Len(result.val) = cursor - 1
        /\ pc \in {"TailPass", "Done"}
             => \A j \in 1..Len(result.val) :
                  IF fs[j].skip THEN result.val[j] = Default(fs[j].ty)
                  ELSE IF ~field_is_dynamic(fs[j].ty) THEN result.val[j] = heads[j]
                  ELSE \E r \in result.rd : r[1] = heads[j] + 30
        /\ pc = "Done" => Len(result.val) = Len(fs)

C26_DoneOrFail == pc \in {"Idle", "HeadPass", "TailPass", "Done", "Fail"}

\* the field types the classification is stated to send to the tail pass
StatedDynamic(t) == t[1] \in {"BytesZcp", "Vec", "Wrapped"}

\* C27: the derive classifies a field as dynamic (its head statement reads
\* only the offset in its head slot, its value is decoded at that offset by
\* its field initialiser) exactly when its type is BytesZcp, Vec<_> or
\* Wrapped<_>, and as static (decoded in place by its head statement) for
\* every other type: so the head statements read nothing outside the head.
C27_Classification ==
    (InSteps /\ pc = "HeadPass")
        => LET fs == Schema(ty[1])
           IN  /\ \A k \in 1..(cursor - 1) :
                    ~fs[k].skip => (field_is_dynamic(fs[k].ty) <=> StatedDynamic(fs[k].ty))
               /\ \A r \in result.rd : r[2] <= 32 * SlotsEnd(fs, cursor)

\* C28: in a derived record with a Wrapped<T> field whose head slot holds
\* the offset o, T is decoded from the payload of the bytes value at o: the
\* region starts at o + 32 and its length is the length word at o, wherever
\* in the tail that bytes value is placed.  Here T is a pair of u128, read
\* from the first two words of its region, and every read of the tail lies
\* inside the region.
C28_WrappedFieldRegion ==
    (pc = "Done" /\ InDerive /\ ty = <<"GenericResult3">> /\ 64 <= Len(mem))
        => LET o == U16At(mem, 32)
           IN  (o + 32 <= Len(mem) /\ 64 <= U16At(mem, o)
                  /\ o + 32 + U16At(mem, o) <= Len(mem))
                 => /\ result.val[2][1] = StripZeros(SubSeq(mem, o + 49, o + 64))
                    /\ result.val[2][2] = StripZeros(SubSeq(mem, o + 81, o + 96))
                    /\ \A r \in result.rd :
                         r[1] >= 64 => (o + 32 <= r[1] /\ r[2] <= o + 32 + U16At(mem, o))

\* two sets of byte ranges [from, to) that share no byte
Disjoint(a, b) == \A r \in a : \A q \in b : r[2] <= q[1] \/ q[2] <= r[1]

\* C29: in a derived record the head byte ranges read for two different
\* non-skipped fields never overlap, and the field after a fixed-size array
\* [T; N] is read from the first word after the N words of the array: in
\* Fixed2 { xs: [u8; 2], y: u16 } y is the value of the third word.
C29_HeadRangesDisjoint ==
    (InSteps /\ pc \in {"TailPass", "Done"} /\ ReadsInside)
        => LET fs == Schema(ty[1])
           IN  /\ \A i \in 1..Len(fs) : \A j \in (i + 1)..Len(fs) :
                    (~fs[i].skip /\ ~fs[j].skip)
                      => Disjoint(head_stmt(mem, fs, i, Whole(mem), NoUB).rd,
                                  head_stmt(mem, fs, j, Whole(mem), NoUB).rd)
               /\ (ty = <<"Fixed2">> /\ 96 <= Len(mem))
                    => heads[2] = StripZeros(SubSeq(mem, 95, 96))

\* C30: in the default build the failure value Err(()) is never produced:
\* whenever a decoder (a primitive, Array, Tuples, Tuple, Wrapped, [T; N] or
\* a derived record built from them) returns at all it returns Ok, and the
\* only outcomes that are not a success are aborts: a panic of an index or
\* of an unwrap, or the abort of a read outside the allocation.
C30_NoFailureValue ==
    /\ pc # "Fail"
    /\ result.st # "Err"
    /\ Returned
         => \/ pc = "Done" /\ result.st = "Ok"
            \/ pc = "Panicked" /\ result.st = "Panic"
            \/ pc = "Aborted" /\ result.st = "Abort"

\* a derived record decode on a buffer too short for its head did not
\* return: its first head statement panicked at the index buf[31]
C30_Witness ==
    /\ pc = "Panicked" /\ InSteps /\ ty = <<"Numero">>
    /\ Len(mem) < 32
    /\ result.st = "Panic"
    /\ heads = <<>>

====
